---- MODULE Spec2Model ----
(***************************************************************************)
(* Model of the Gicisky image transfer: gicisky_ble/writer.py              *)
(* (update_image, GiciskyClient) and the write service of __init__.py.     *)
(*                                                                         *)
(* One step of the transfer coroutine runs from one await to the next, as  *)
(* asyncio runs it; the notification callback and the device run between   *)
(* those steps.                                                            *)
(***************************************************************************)
EXTENDS Integers, Sequences, FiniteSets, TLC

\* ------------------------------------------------------------------ bounds
\* The chunk loop of write_image has no upper limit: the model stops
\* following it once count has reached MaxCount.
MaxCount == 2
\* Notifications the device emits for one request (0 = it stays silent).
MaxNotifs == 2
\* Notifications sent by the device and not yet delivered to the handler.
MaxInflight == 1
\* Concurrent invocations of the write service.
MaxCalls == 2
\* Longest device_id list of one service call.
MaxIds == 1
\* Largest width and height of the small geometries of CodecGeometries.
MaxDim == 6
\* Largest width and height of the pictures encoded pixel by pixel.
MaxImgDim == 4
\* Advertisements a parser object is fed.
MaxAdverts == 2
\* Requests one attempt of packet.py's write_image may write.
MaxWrites == 3

\* ------------------------------------------------------- program constants
ChunkSize == 240
FragmentSize == 160
max_retries == 3
RequiredChars == 3
UpdateImageParams == 3
UpdateImageArgs == 5
PacketFragmentSize == 20
lum_threshold == 150
red_threshold == 150

\* ------------------------------------------------------------------ inputs
\* Device geometries (width, height, red) the transfer is run for:
\* 240 bytes = 1 chunk, and 2 planes of 200 bytes = 2 chunks.
Geometries ==
    { [width |-> 40, height |-> 48, red |-> FALSE],
      [width |-> 40, height |-> 40, red |-> TRUE] }

\* DEVICE_TYPES, by device-type code (0xA0, 0x0B, 0x33, 0x4B, 0x2B): the
\* fields of each DeviceEntry that the program or a claim reads.  Voltages
\* are in tenths of a volt.
DEVICE_TYPES ==
    (160 :> [name |-> "TFT 21", model |-> "TFT 2.1 BW", width |-> 250, height |-> 132,
             red |-> FALSE, tft |-> TRUE, mirror_x |-> TRUE,
             max_voltage |-> 29, min_voltage |-> 22,
             manufacturer |-> "Gicisky"])
    @@ (11 :> [name |-> "EPD 21", model |-> "EPD 2.1 BWR", width |-> 250, height |-> 128,
               red |-> TRUE, tft |-> FALSE, mirror_x |-> TRUE,
               max_voltage |-> 29, min_voltage |-> 22,
             manufacturer |-> "Gicisky"])
    @@ (51 :> [name |-> "EPD 29", model |-> "EPD 2.9 BWR", width |-> 296, height |-> 128,
               red |-> TRUE, tft |-> FALSE, mirror_x |-> FALSE,
               max_voltage |-> 29, min_voltage |-> 22,
             manufacturer |-> "Gicisky"])
    @@ (75 :> [name |-> "EPD 42", model |-> "EPD 4.2 BWR", width |-> 400, height |-> 300,
               red |-> TRUE, tft |-> FALSE, mirror_x |-> FALSE,
               max_voltage |-> 30, min_voltage |-> 22,
             manufacturer |-> "Gicisky"])
    @@ (43 :> [name |-> "EPD 75", model |-> "EPD 7.5 BWR", width |-> 800, height |-> 480,
               red |-> TRUE, tft |-> FALSE, mirror_x |-> FALSE,
               max_voltage |-> 30, min_voltage |-> 22,
             manufacturer |-> "Gicisky"])

\* The attributes of the DeviceEntry dataclass.
DeviceEntryFields ==
    { "name", "model", "width", "height", "red", "tft", "mirror_x", "mirror_y",
      "rotation", "compression", "manufacturer", "max_voltage", "min_voltage" }

\* What GiciskyClient reads of a DeviceEntry: width, height and red.
GeometryOf(d) == [width |-> d.width, height |-> d.height, red |-> d.red]

RegisteredGeometries == { GeometryOf(DEVICE_TYPES[c]) : c \in DOMAIN DEVICE_TYPES }

\* DeviceEntry values handed to GiciskyClient when its packet builders are
\* checked on their own: the registered types, and every small geometry.
CodecGeometries ==
    RegisteredGeometries \cup
        [width : 1..MaxDim, height : 1..MaxDim, red : BOOLEAN]

\* RGB values of a pixel: either side of the luminance threshold, with the
\* red test true and false.
Black == [r |-> 0, g |-> 0, b |-> 0]

White == [r |-> 255, g |-> 255, b |-> 255]

Red == [r |-> 255, g |-> 0, b |-> 0]

Pink == [r |-> 255, g |-> 149, b |-> 255]

Grey149 == [r |-> 149, g |-> 149, b |-> 149]

Grey151 == [r |-> 151, g |-> 151, b |-> 151]

Colours == { Black, White, Red, Pink, Grey149, Grey151 }

\* DeviceEntry values the codec is run for: every small geometry, the two
\* geometries of the transfer, and the registered types.
PixelGeometries ==
    [width : 1..MaxImgDim, height : 1..MaxImgDim, red : BOOLEAN]
        \cup Geometries \cup RegisteredGeometries

\* The pixels (by their place k in the codec's traversal) a picture may
\* single out: all of them on a small picture, the first, the last and the
\* one that opens the second chunk on the geometries of the transfer, none on
\* the registered types.
ProbePixels(dev) ==
    LET n == dev.width * dev.height
    IN  IF dev.width <= MaxImgDim /\ dev.height <= MaxImgDim THEN 0..(n - 1)
        ELSE IF dev \in Geometries THEN {0, (ChunkSize * 8) % n, n - 1}
        ELSE {}

\* Pictures of the size of the device: one colour all over, or one pixel of
\* another colour on black or white.
Images(dev) ==
    { [kind |-> "uniform", k |-> 0, fg |-> c, bg |-> c] : c \in Colours }
        \cup { [kind |-> "dot", k |-> k, fg |-> fg, bg |-> bg] :
                  k \in ProbePixels(dev), fg \in Colours, bg \in {Black, White} }

\* Manufacturer data (company 0x5053) of the advertisements fed to the
\* parser: 5 bytes of device-type code (registered or not), battery in
\* tenths of a volt, two firmware bytes and a last byte, and payloads one
\* byte short and one byte long.
AdvertCodes == DOMAIN DEVICE_TYPES \cup {0, 255}

BatteryBytes == {22, 29, 30}

Adverts ==
    { <<c, b, fw[1], fw[2], 0>> :
        c \in AdvertCodes, b \in BatteryBytes, fw \in {<<0, 1>>, <<1, 0>>} }
      \cup { <<11, 29, 0, 1>>, <<11, 29, 0, 1, 0, 0>> }

\* Device objects handed to packet.py's write_image: with the attribute
\* resolution = (width, height) that packet.py reads, or a DeviceEntry of
\* devices.py, which has width and height and no resolution.  32
\* bytes of picture: a full image packet takes two 20-byte fragments, all
\* other packets one.
PacketDevices ==
    [width : {16}, height : {16}, red : {FALSE}, resolution : BOOLEAN]

\* Notification payloads the device may send after any request: the answers
\* of the protocol, a frame with a status byte, and an empty one.
PacketReplies ==
    { <<1, 244, 0>>, <<2>>, <<5, 0, 0, 0, 0, 0>>, <<5, 0, 1, 0, 0, 0>>,
      <<5, 8, 0, 0, 0, 0>>, <<>> }

\* The characteristics of the Gicisky service, in the order update_image
\* collects them (char_uuids); it goes on only with exactly three.
Uuids == << "char0", "char1", "char2" >>

\* The image characteristic taken one place further down the list.
ImgUuidThird == Uuids[3]

\* GiciskyClient.__init__: self.cmd_uuid, self.img_uuid = uuids[:2]
cmd_uuid == Uuids[1]

img_uuid == Uuids[2]

\* start_notify(self.cmd_uuid, ...) and stop_notify(self.cmd_uuid): the
\* characteristic the notifications are subscribed on.
NotifyChar == cmd_uuid

\* Numbers of characteristics the Gicisky service may expose.
CharCounts == {2, 3, 4}

\* Notification payloads the device may send for a request, well-formed and
\* not, by the request's opcode (image chunks go to img_uuid).
Replies(pkt) ==
    IF pkt.uuid = img_uuid \/ pkt.hdr[1] = 3
    THEN { <<5, 0, 0, 0, 0, 0>>, <<5, 0, 1, 0, 0, 0>>, <<5, 0, 2, 0, 0, 0>>,
           <<5, 8, 0, 0, 0, 0>>, <<5, 0, 1>> }
    ELSE IF pkt.hdr[1] = 2
    THEN { <<2>>, <<>>, <<1, 244, 0>> }
    ELSE { <<1, 244, 0>>, <<1, 0, 0>>, <<1, 244>> }

AllReplies ==
    { <<1, 244, 0>>, <<1, 0, 0>>, <<1, 244>>, <<2>>, <<>>, <<5, 0, 0, 0, 0, 0>>,
      <<5, 0, 1, 0, 0, 0>>, <<5, 0, 2, 0, 0, 0>>, <<5, 8, 0, 0, 0, 0>>,
      <<5, 0, 1>> }

\* Scripts of the transport: the outcomes of the next n connection attempts.
Scripts(n) == [1..n -> BOOLEAN]

\* command_data = None
None == <<-1>>

\* ----------------------------------------------------------- pure helpers
Min(a, b) == IF a < b THEN a ELSE b

Max(a, b) == IF a < b THEN b ELSE a

\* struct.pack("<I", n)
LE32(n) ==
    << n % 256, (n \div 256) % 256, (n \div 65536) % 256, (n \div 16777216) % 256 >>

\* int.from_bytes(data[2:6], "little"), for len(data) >= 6
IndexOf(d) == d[3] + 256 * d[4] + 65536 * d[5] + 16777216 * d[6]

\* len(seq[a:b]) of a Python slice with 0 <= a, 0 <= b
SliceLen(n, a, b) == Max(0, Min(b, n) - Min(a, n))

\* GiciskyClient.__init__: self.packet_size
PacketSize(dev) == ((dev.width * dev.height) \div 8) * (IF dev.red THEN 2 ELSE 1)

\* len(get_pixel_data(image)): one byte per 8 pixels, last one padded, per plane
ImageLen(dev) ==
    ((dev.width * dev.height + 7) \div 8) * (IF dev.red THEN 2 ELSE 1)

\* ceil(totalSize / 240)
TotalChunks(dev) == (PacketSize(dev) + ChunkSize - 1) \div ChunkSize

\* get_pixel_data: the pixel visited k-th, as (x, y):
\* for x in range(width): for y in range(height).
PixelAt(k, dev) == [x |-> k \div dev.height, y |-> k % dev.height]

\* pixels[x, y] of a picture
PixelOf(img, xy, dev) ==
    IF img.kind = "dot" /\ xy = PixelAt(img.k, dev) THEN img.fg ELSE img.bg

\* luminance > lum_threshold, with 0.2126 r + 0.7152 g + 0.0722 b in
\* ten-thousandths
Bright(c) == 2126 * c.r + 7152 * c.g + 722 * c.b > lum_threshold * 10000

\* The red test without its condition on green.
IsRedNoGreen(c) == c.r > red_threshold

\* (r > red_threshold) and (g < red_threshold)
IsRed(c) == c.r > red_threshold /\ c.g < red_threshold

\* The test that sets a bit of a plane: plane 0 byte_data, plane 1
\* byte_data_red.
PlaneBit(plane, c) == IF plane = 0 THEN Bright(c) ELSE IsRed(c)

\* A byte packed from the low bit upwards.
PackByteLsbFirst(img, dev, j, plane) ==
    LET n == dev.width * dev.height
        bit(i) == IF 8 * j + i < n /\ PlaneBit(plane, PixelOf(img, PixelAt(8 * j + i, dev), dev))
                  THEN 2 ^ i ELSE 0
    IN  bit(0) + bit(1) + bit(2) + bit(3) + bit(4) + bit(5) + bit(6) + bit(7)

\* get_pixel_data: byte j (from 0) of a plane: current_byte |= 1 << bit_pos
\* for bit_pos = 7 down to 0 over pixels 8j .. 8j+7, as far as there are
\* pixels.
PackByte(img, dev, j, plane) ==
    LET n == dev.width * dev.height
        bit(i) == IF 8 * j + i < n /\ PlaneBit(plane, PixelOf(img, PixelAt(8 * j + i, dev), dev))
                  THEN 2 ^ (7 - i) ELSE 0
    IN  bit(0) + bit(1) + bit(2) + bit(3) + bit(4) + bit(5) + bit(6) + bit(7)

\* get_pixel_data: the bytes appended for n pixels: one per 8 pixels, and
\* one more for the remaining bits (bit_pos != 7).
NumBytes(n) == n \div 8 + (IF n % 8 # 0 THEN 1 ELSE 0)

\* byte_data (plane 0) and byte_data_red (plane 1)
PlaneBytes(img, dev, plane) ==
    [ j \in 1..NumBytes(dev.width * dev.height) |-> PackByte(img, dev, j - 1, plane) ]

\* A codec that hands back plane 0 alone whatever the device.
GetPixelDataOnePlane(img, dev) == PlaneBytes(img, dev, 0)

\* A codec that puts the red plane first.
GetPixelDataRedFirst(img, dev) ==
    IF dev.red THEN PlaneBytes(img, dev, 1) \o PlaneBytes(img, dev, 0)
               ELSE PlaneBytes(img, dev, 0)

\* get_pixel_data: byte_data + byte_data_red if support_red else byte_data
GetPixelData(img, dev) ==
    IF dev.red THEN PlaneBytes(img, dev, 0) \o PlaneBytes(img, dev, 1)
               ELSE PlaneBytes(img, dev, 0)

\* seq[a:b] of a Python slice with 0 <= a
PySlice(seq, a, b) == SubSeq(seq, Min(a, Len(seq)) + 1, Min(b, Len(seq)))

\* The integer nearest to a / d, for d > 0.
RoundDiv(a, d) == (2 * a + d) \div (2 * d)

\* _parse_gicisky: round((volt - 2.2) * 100 / (2.9 - 2.2), 1) for volt =
\* b / 10, in tenths of a percent.
BatteryPercent(b) == RoundDiv((b - 22) * 1000, 29 - 22)

\* The lookup of a code that is not a key of DEVICE_TYPES raises.
KeyError == [raised |-> "KeyError"]

\* A registry that answers an unknown code with the entry of code 0x0B.
LookupWithDefault(code) ==
    IF code \in DOMAIN DEVICE_TYPES THEN DEVICE_TYPES[code] ELSE DEVICE_TYPES[11]

\* _parse_gicisky: DEVICE_TYPES[device_id], or KeyError
Lookup(code) ==
    IF code \in DOMAIN DEVICE_TYPES THEN DEVICE_TYPES[code] ELSE KeyError

\* _make_cmd_packet
MakeCmdPacket(cmd, dev) ==
    [ uuid |-> cmd_uuid,
      hdr  |-> IF cmd = 2 THEN <<cmd>> \o LE32(PacketSize(dev)) \o <<0, 0, 0>>
                          ELSE <<cmd>>,
      off  |-> 0,
      len  |-> 0 ]

\* An image packet whose slice starts at part times the fragment size.
MakeImgPacketFragmentStride(p, dev) ==
    LET start == p * FragmentSize
    IN  [ uuid |-> img_uuid,
          hdr  |-> LE32(p),
          off  |-> start,
          len  |-> SliceLen(ImageLen(dev), start,
                            start + Min(ChunkSize, PacketSize(dev) - start)) ]

\* _make_img_packet: 4-byte index, then image_packets[start : start + min(240, packet_size - start)]
MakeImgPacket(p, dev) ==
    LET start == p * ChunkSize
    IN  [ uuid |-> img_uuid,
          hdr  |-> LE32(p),
          off  |-> start,
          len  |-> SliceLen(ImageLen(dev), start,
                            start + Min(ChunkSize, PacketSize(dev) - start)) ]

PacketLen(pkt) == Len(pkt.hdr) + pkt.len

\* GiciskyClient.write: data[i : i + size], the k-th (from 1) of the slices
\* for i in range(0, len(data), size), of n bytes of data.
FragmentAt(n, size, k) ==
    [off |-> (k - 1) * size,
     len |-> SliceLen(n, (k - 1) * size, (k - 1) * size + size)]

\* A write that hands the whole packet to one GATT write.
NumFragmentsNoSplit(pkt) == 1

\* GiciskyClient.write: range(0, len(data), chunk)
NumFragments(pkt) == (PacketLen(pkt) + FragmentSize - 1) \div FragmentSize

\* packet.py, GiciskyClient.write: range(0, len(data), 20)
PacketNumFragments(pkt) ==
    (PacketLen(pkt) + PacketFragmentSize - 1) \div PacketFragmentSize

\* packet.py, GiciskyClient.write_image: what the loop does with a response:
\* leave (`while data` is false), break, or write the size packet, the
\* begin-image command or the chunk the response names.
PacketStep(d) ==
    IF d = <<>> THEN "leave"
    ELSE IF d[1] = 1
         THEN IF Len(d) < 3 \/ d[2] # 244 \/ d[3] # 0 THEN "break" ELSE "size"
    ELSE IF d[1] = 2 THEN "begin"
    ELSE IF d[1] = 5
         THEN IF Len(d) >= 6 /\ d[2] = 0 THEN "chunk" ELSE "break"
    ELSE "break"

\* The START check without its test of byte 1.
StartAcceptedNoF4(d) == ~(Len(d) < 3 \/ d[1] # 1 \/ d[3] # 0)

\* write_image, the START check
StartAccepted(d) == ~(Len(d) < 3 \/ d[1] # 1 \/ d[2] # 244 \/ d[3] # 0)

\* The SIZE_DATA check without its test of byte 0.
SizeAcceptedAnyOpcode(d) == ~(Len(d) < 1)

\* write_image, the SIZE_DATA check
SizeAccepted(d) == ~(Len(d) < 1 \/ d[1] # 2)

\* write_image, the IMAGE check
ImageAccepted(d) == ~(Len(d) < 6 \/ d[1] # 5 \/ d[2] # 0)

\* The IMAGE_DATA check without its test of byte 1.
ChunkAcceptedNoZero(d) == ~(Len(d) < 6 \/ d[1] # 5)

\* write_image, the IMAGE_DATA check: a response that fails it ends the loop
ChunkAccepted(d) == ~(Len(d) < 6 \/ d[1] # 5 \/ d[2] # 0)

\* A response shaped 05 00 <4-byte index>, as the wire protocol defines it.
WellFormedIndexFrame(d) == Len(d) >= 6 /\ d[1] = 5 /\ d[2] = 0

\* A check that only asks for enough characteristics.
CharsAcceptedAtLeast(n) == ~(n < RequiredChars)

\* update_image goes on only when the Gicisky service has exactly three
\* characteristics; otherwise it raises BleakServiceMissing.
CharsAccepted(n) == ~(n # RequiredChars)

\* A state machine that goes from START straight to IMAGE.
NextStatusSkipsSize(s) ==
    CASE s = "START" -> "IMAGE"
      [] s = "SIZE_DATA" -> "IMAGE"
      [] s = "IMAGE" -> "IMAGE_DATA"
      [] OTHER -> s

\* write_image: the status that follows an accepted response.
NextStatus(s) ==
    CASE s = "START" -> "SIZE_DATA"
      [] s = "SIZE_DATA" -> "IMAGE"
      [] s = "IMAGE" -> "IMAGE_DATA"
      [] OTHER -> s

\* The functions wrapped by disconnect_on_missing_services: an exception
\* BleakServiceMissing or BleakCharacteristicMissing that leaves one of them
\* goes through clear_cache and disconnect on its way out.
Wrapped == {"start_notify", "stop_notify", "write"}

\* read(): self.command_data or b""
OrEmpty(cd) == IF cd = None THEN <<>> ELSE cd

\* ------------------------------------------------------------------- state
VARIABLES
    transport,      \* script: the outcome of each connection attempt, in order
    connects,       \* establish_connection calls made so far
    chars,          \* len(char_uuids) of the attempt (0: not counted yet)
    pc,             \* where update_image is suspended
    ret,            \* what update_image returned ("none" while running)
    pending,        \* the return value held while finally disconnects
    device,         \* DeviceEntry of the attempt
    client,         \* "none" | "connected" | "closed"
    subscribed,     \* notifications on cmd_uuid are on
    command_data,   \* GiciskyClient.command_data
    event,          \* GiciskyClient.event is set
    status,         \* write_image: status
    count,          \* write_image: count
    part,           \* write_image: part
    data,           \* write_image: data (None before the first response)
    packet,         \* write(): the packet being written
    frag,           \* write(): fragments of it written so far
    raised,         \* the exception write_image caught and logged
    sent,           \* protocol packets written in this attempt, in order
    gatt,           \* start_notify / stop_notify / disconnect calls, in order
    inflight,       \* notifications sent by the device, not yet delivered
    devReq,         \* requests the device has received completely
    devEmitted,     \* notifications it sent for the last of them
    mail_req,       \* the request the buffered notification was sent for
    latest,         \* the last payload delivered since the last clear
    nreads,         \* read() calls of this attempt that returned
    frames,         \* of their results, the frames 05 00 <4-byte index>
    calls,          \* the write service invocations
    lock,           \* holder of hass.data[DOMAIN][LOCK] (0 = free)
    waiters,        \* invocations queued on the lock
    prev_midstream, \* the attempt before this one timed out between chunks
    image,          \* the picture handed to get_pixel_data
    image_packets,  \* GiciskyClient.image_packets, as bytes
    adv             \* GiciskyBluetoothDeviceData: what the parser keeps

xferVars ==
    << transport, connects, chars, pc, ret, pending, device, client, subscribed,
       command_data, event, status, count, part, data, packet, frag, raised,
       sent, gatt, inflight, devReq, devEmitted, mail_req, latest, nreads, frames >>

svcVars == << calls, lock, waiters, prev_midstream >>

\* State of the codec and of the advertisement parser, which run apart from
\* a transfer.
offlineVars == << image, image_packets, adv >>

vars == << xferVars, svcVars, offlineVars >>

NoPacket == [uuid |-> "none", hdr |-> <<>>, off |-> 0, len |-> 0]

\* No picture has been handed to the codec.
NoImage == [kind |-> "none"]

\* A GiciskyBluetoothDeviceData that has parsed nothing yet.
NoAdvert ==
    [ device_id |-> -1, device_type |-> "", title |-> "", name |-> "",
      type |-> "", manufacturer |-> "", sw_version |-> -1,
      battery |-> -1, voltage |-> -1,
      data |-> <<>>, ret |-> "none", parsed |-> 0 ]

AnyGeometry == CHOOSE g \in Geometries : TRUE

\* Before update_image or the write service is called, for a tag of
\* geometry dev.
IdleImage(dev, img) ==
    /\ connects = 0
    /\ chars = 0
    /\ pc = "idle"
    /\ ret = "none"
    /\ pending = "none"
    /\ device = dev
    /\ client = "none"
    /\ subscribed = FALSE
    /\ command_data = None
    /\ event = FALSE
    /\ status = "START"
    /\ count = 0
    /\ part = 0
    /\ data = None
    /\ packet = NoPacket
    /\ frag = 0
    /\ raised = "none"
    /\ sent = <<>>
    /\ gatt = <<>>
    /\ inflight = <<>>
    /\ devReq = 0
    /\ devEmitted = 0
    /\ mail_req = 0
    /\ latest = None
    /\ nreads = 0
    /\ frames = 0
    /\ calls = [c \in 1..MaxCalls |-> [pc |-> "idle", ids |-> <<>>, i |-> 0,
                                       attempt |-> 0, outcome |-> "none"]]
    /\ lock = 0
    /\ waiters = <<>>
    /\ prev_midstream = FALSE
    /\ image = img
    /\ image_packets = <<>>
    /\ adv = NoAdvert

IdleWith(dev) == IdleImage(dev, NoImage)

Idle == IdleWith(AnyGeometry)

\* One call of update_image: one connection attempt.
Init == transport \in Scripts(1) /\ Idle

\* The write service: up to max_retries connection attempts for a device.
InitService == transport \in Scripts(max_retries) /\ Idle

\* ------------------------------------------------- update_image, by await
\* A write_with_response that resets command_data and leaves the event set.
BeginRequestKeepsEvent(pkt) ==
    /\ command_data' = None
    /\ event' = event
    /\ mail_req' = 0
    /\ latest' = None
    /\ packet' = pkt
    /\ frag' = 0
    /\ pc' = "write"

\* write_with_response up to its first await: the mailbox is cleared, then
\* write() starts on the first fragment.
BeginRequest(pkt) ==
    /\ command_data' = None
    /\ event' = FALSE
    /\ mail_req' = 0
    /\ latest' = None
    /\ packet' = pkt
    /\ frag' = 0
    /\ pc' = "write"

\* write_image is left (break, or an exception caught and logged by its
\* except clause); update_image goes on to await gicisky.stop_notify().
FinishWriteImage(err) ==
    /\ raised' = err
    /\ pc' = "stop_notify"

\* update_image without its finally clause.
ExitUpdateNoFinally(r) == pc' = "done" /\ ret' = r /\ pending' = pending

\* update_image returns r (or lets a cancellation through); its finally
\* clause disconnects a client that is connected.
ExitUpdate(r) ==
    IF client = "connected"
    THEN pc' = "disconnect" /\ pending' = r /\ ret' = ret
    ELSE pc' = "done" /\ ret' = r /\ pending' = pending

\* update_image starts: it awaits establish_connection.  The GiciskyClient
\* and the locals of write_image of an earlier call are out of reach; they
\* keep their last values until this call builds its own.
StartUpdateImage(geo) ==
    /\ pc' = "connect"
    /\ device' = geo
    /\ ret' = "none"
    /\ pending' = "none"
    /\ client' = "none"
    /\ subscribed' = FALSE
    /\ packet' = NoPacket
    /\ frag' = 0
    /\ raised' = "none"
    /\ sent' = <<>>
    /\ gatt' = <<>>
    /\ inflight' = <<>>
    /\ devReq' = 0
    /\ devEmitted' = 0
    /\ nreads' = 0
    /\ frames' = 0
    /\ chars' = 0
    /\ UNCHANGED << transport, connects, command_data, event, mail_req, latest,
                    status, count, part, data >>

\* A caller invokes update_image(ble_device, device, image).
Call(geo) ==
    /\ pc = "idle"
    /\ StartUpdateImage(geo)
    /\ UNCHANGED << svcVars, offlineVars >>

\* update_image has returned with the transfer not done, and the caller
\* invokes it again for the same device.
CallAgain ==
    /\ pc = "done"
    /\ connects < Len(transport)
    /\ StartUpdateImage(device)
    /\ prev_midstream' = (raised = "Timeout" /\ status = "IMAGE_DATA" /\ count >= 1)
    /\ UNCHANGED << calls, lock, waiters, offlineVars >>

\* establish_connection returns a client; the characteristics of the
\* Gicisky service are counted and the GiciskyClient is built.  A count
\* other than three raises BleakServiceMissing in update_image itself.
ConnectOK(n) ==
    /\ pc = "connect"
    /\ connects < Len(transport)
    /\ transport[connects + 1] = TRUE
    /\ connects' = connects + 1
    /\ client' = "connected"
    /\ chars' = n
    /\ IF ~CharsAccepted(n)
       THEN /\ pc' = "disconnect"
            /\ pending' = "False"
            /\ gatt' = IF "update_image" \in Wrapped
                       THEN Append(gatt, "clear_cache") ELSE gatt
            /\ UNCHANGED << command_data, event, mail_req, latest >>
       ELSE /\ pc' = "start_notify"
            /\ pending' = pending
            /\ command_data' = None
            /\ event' = FALSE
            /\ mail_req' = 0
            /\ latest' = None
            /\ UNCHANGED gatt
    /\ UNCHANGED << transport, ret, device, subscribed, status, count, part,
                    data, packet, frag, raised, sent, inflight, devReq,
                    devEmitted, nreads, frames, svcVars, offlineVars >>

\* establish_connection raises: client stays None, update_image returns False.
ConnectFail ==
    /\ pc = "connect"
    /\ connects < Len(transport)
    /\ transport[connects + 1] = FALSE
    /\ connects' = connects + 1
    /\ pc' = "done"
    /\ ret' = "False"
    /\ UNCHANGED << transport, chars, pending, device, client, subscribed, command_data, event,
                    status, count, part, data, packet, frag, raised, sent, gatt,
                    inflight, devReq, devEmitted, mail_req, latest, nreads, frames,
                    svcVars, offlineVars >>

\* GiciskyClient.start_notify: client.start_notify, then sleep(0.5).
StartNotify ==
    /\ pc = "start_notify"
    /\ IF client = "connected"
       THEN /\ subscribed' = TRUE
            /\ gatt' = Append(gatt, "start_notify")
            /\ pc' = "notify_sleep"
            /\ UNCHANGED << ret, pending >>
       ELSE /\ ExitUpdate("False")
            /\ UNCHANGED << subscribed, gatt >>
    /\ UNCHANGED << transport, connects, chars, device, client, command_data, event,
                    status, count, part, data, packet, frag, raised, sent,
                    inflight, devReq, devEmitted, mail_req, latest, nreads, frames,
                    svcVars, offlineVars >>

\* A write_image that writes the chunk before once more.
RequestForRepeats(st, cnt, dev) ==
    CASE st = "START" -> MakeCmdPacket(1, dev)
      [] st = "SIZE_DATA" -> MakeCmdPacket(2, dev)
      [] st = "IMAGE" -> MakeCmdPacket(3, dev)
      [] OTHER -> MakeImgPacket(Max(cnt - 1, 0), dev)

\* The request write_image issues in a status after count accepted chunks.
RequestFor(st, cnt, dev) ==
    CASE st = "START" -> MakeCmdPacket(1, dev)
      [] st = "SIZE_DATA" -> MakeCmdPacket(2, dev)
      [] st = "IMAGE" -> MakeCmdPacket(3, dev)
      [] OTHER -> MakeImgPacket(cnt, dev)

\* A write_image that takes up the transfer where the last one stopped.
NotifySleepDoneResume ==
    /\ pc = "notify_sleep"
    /\ BeginRequest(RequestFor(status, count, device))
    /\ UNCHANGED << transport, connects, chars, ret, pending, device, client,
                    subscribed, part, count, status, data, raised, sent, gatt,
                    inflight, devReq, devEmitted, nreads, frames, svcVars, offlineVars >>

\* sleep(0.5) is over; write_image starts with its own part, count and
\* status and issues the Start request.
NotifySleepDone ==
    /\ pc = "notify_sleep"
    /\ part' = 0
    /\ count' = 0
    /\ status' = "START"
    /\ data' = None
    /\ BeginRequest(RequestFor("START", 0, device))
    /\ UNCHANGED << transport, connects, chars, ret, pending, device, client,
                    subscribed, raised, sent, gatt, inflight, devReq,
                    devEmitted, nreads, frames, svcVars, offlineVars >>

\* write(): one client.write_gatt_char of the current packet.  It raises
\* BleakError on a client that is no longer connected.
WriteFragment ==
    /\ pc = "write"
    /\ IF client = "connected"
       THEN /\ sent' = IF frag = 0 THEN Append(sent, packet) ELSE sent
            /\ frag' = frag + 1
            /\ pc' = "sleep"
            /\ IF frag + 1 = NumFragments(packet)
               THEN devReq' = devReq + 1 /\ devEmitted' = 0
               ELSE UNCHANGED << devReq, devEmitted >>
            /\ UNCHANGED raised
       ELSE /\ FinishWriteImage("BleakError")
            /\ UNCHANGED << sent, frag, devReq, devEmitted >>
    /\ UNCHANGED << transport, connects, chars, ret, pending, device, client,
                    subscribed, command_data, event, status, count, part, data,
                    packet, gatt, inflight, mail_req, latest, nreads, frames, svcVars, offlineVars >>

\* A request that clears its mailbox after the write, when read() starts.
SleepDoneClears ==
    /\ pc = "sleep"
    /\ pc' = IF frag < NumFragments(packet) THEN "write" ELSE "read"
    /\ command_data' = IF frag < NumFragments(packet) THEN command_data ELSE None
    /\ event' = IF frag < NumFragments(packet) THEN event ELSE FALSE
    /\ UNCHANGED << transport, connects, chars, ret, pending, device, client,
                    subscribed, status, count, part, data,
                    packet, frag, raised, sent, gatt, inflight, devReq,
                    devEmitted, mail_req, latest, nreads, frames, svcVars, offlineVars >>

\* write(): sleep(0.05) is over; next fragment, or on to read().
SleepDone ==
    /\ pc = "sleep"
    /\ pc' = IF frag < NumFragments(packet) THEN "write" ELSE "read"
    /\ UNCHANGED << transport, connects, chars, ret, pending, device, client,
                    subscribed, command_data, event, status, count, part, data,
                    packet, frag, raised, sent, gatt, inflight, devReq,
                    devEmitted, mail_req, latest, nreads, frames, svcVars, offlineVars >>

\* read() returns; write_image checks the response for the current status
\* and goes on to the next request, raises, or breaks.
ReadReturn ==
    /\ pc = "read"
    /\ event
    /\ LET d == OrEmpty(command_data)
       IN  /\ data' = d
           /\ nreads' = nreads + 1
           /\ frames' = IF WellFormedIndexFrame(d) THEN frames + 1 ELSE frames
           /\ CASE status = "START" ->
                    IF StartAccepted(d)
                    THEN /\ status' = NextStatus(status)
                         /\ BeginRequest(RequestFor(NextStatus(status), count, device))
                         /\ UNCHANGED << raised, part, count >>
                    ELSE /\ FinishWriteImage("PacketError")
                         /\ UNCHANGED << status, part, count, command_data,
                                         event, mail_req, latest, packet, frag >>
                [] status = "SIZE_DATA" ->
                    IF SizeAccepted(d)
                    THEN /\ status' = NextStatus(status)
                         /\ BeginRequest(RequestFor(NextStatus(status), count, device))
                         /\ UNCHANGED << raised, part, count >>
                    ELSE /\ FinishWriteImage("PacketError")
                         /\ UNCHANGED << status, part, count, command_data,
                                         event, mail_req, latest, packet, frag >>
                [] status = "IMAGE" ->
                    IF ImageAccepted(d)
                    THEN /\ status' = NextStatus(status)
                         /\ BeginRequest(RequestFor(NextStatus(status), count, device))
                         /\ UNCHANGED << raised, part, count >>
                    ELSE /\ FinishWriteImage("PacketError")
                         /\ UNCHANGED << status, part, count, command_data,
                                         event, mail_req, latest, packet, frag >>
                [] status = "IMAGE_DATA" ->
                    IF ChunkAccepted(d)
                    THEN /\ count < MaxCount
                         /\ part' = IndexOf(d)
                         /\ count' = count + 1
                         /\ BeginRequest(RequestFor(status, count + 1, device))
                         /\ UNCHANGED << raised, status >>
                    ELSE /\ FinishWriteImage("none")
                         /\ UNCHANGED << status, part, count, command_data,
                                         event, mail_req, latest, packet, frag >>
    /\ UNCHANGED << transport, connects, chars, ret, pending, device, client,
                    subscribed, sent, gatt, inflight, devReq, devEmitted,
                    svcVars, offlineVars >>

\* A write_image that logs a timeout and goes on to the next chunk.
ReadTimeoutContinues ==
    /\ pc = "read"
    /\ ~event
    /\ raised' = "Timeout"
    /\ BeginRequest(RequestFor(status, count + 1, device))
    /\ UNCHANGED << transport, connects, chars, ret, pending, device, client,
                    subscribed, status, count, part, data, sent, gatt, inflight,
                    devReq, devEmitted, nreads, frames, svcVars, offlineVars >>

\* A read() that answers a timeout by writing the same request again.
ReadTimeoutResend ==
    /\ pc = "read"
    /\ ~event
    /\ pc' = "write"
    /\ frag' = 0
    /\ UNCHANGED << transport, connects, chars, ret, pending, device, client,
                    subscribed, command_data, event, status, count, part, data,
                    packet, raised, sent, gatt, inflight, devReq, devEmitted,
                    mail_req, latest, nreads, frames, svcVars, offlineVars >>

\* read(): wait_for gives up after its timeout; write_image catches it.
ReadTimeout ==
    /\ pc = "read"
    /\ ~event
    /\ FinishWriteImage("Timeout")
    /\ UNCHANGED << transport, connects, chars, ret, pending, device, client,
                    subscribed, command_data, event, status, count, part, data,
                    packet, frag, sent, gatt, inflight, devReq, devEmitted,
                    mail_req, latest, nreads, frames, svcVars, offlineVars >>

\* GiciskyClient.stop_notify, then return True; it raises BleakError on a
\* client that is no longer connected, and update_image returns False.
StopNotify ==
    /\ pc = "stop_notify"
    /\ IF client = "connected"
       THEN /\ subscribed' = FALSE
            /\ gatt' = Append(gatt, "stop_notify")
            /\ inflight' = <<>>
            /\ ExitUpdate("True")
       ELSE /\ ExitUpdate("False")
            /\ UNCHANGED << subscribed, gatt, inflight >>
    /\ UNCHANGED << transport, connects, chars, device, client, command_data, event,
                    status, count, part, data, packet, frag, raised, sent,
                    devReq, devEmitted, mail_req, latest, nreads, frames, svcVars, offlineVars >>

\* A finally clause that unsubscribes after it has disconnected.
DisconnectThenStopNotify ==
    /\ pc = "disconnect"
    /\ client' = "closed"
    /\ subscribed' = FALSE
    /\ inflight' = <<>>
    /\ gatt' = gatt \o << "disconnect", "stop_notify" >>
    /\ pc' = "done"
    /\ ret' = pending
    /\ UNCHANGED << transport, connects, chars, pending, device, command_data, event,
                    status, count, part, data, packet, frag, raised, sent,
                    devReq, devEmitted, mail_req, latest, nreads, frames, svcVars, offlineVars >>

\* finally: await client.disconnect(); then the held value is returned.
Disconnect ==
    /\ pc = "disconnect"
    /\ client' = "closed"
    /\ subscribed' = FALSE
    /\ inflight' = <<>>
    /\ gatt' = Append(gatt, "disconnect")
    /\ pc' = "done"
    /\ ret' = pending
    /\ UNCHANGED << transport, connects, chars, pending, device, command_data, event,
                    status, count, part, data, packet, frag, raised, sent,
                    devReq, devEmitted, mail_req, latest, nreads, frames, svcVars, offlineVars >>

\* The task running update_image is cancelled while it is suspended:
\* CancelledError is no Exception, so neither except clause catches it.
Cancel ==
    /\ pc \in {"connect", "start_notify", "notify_sleep", "write", "sleep",
               "read", "stop_notify"}
    /\ ExitUpdate("Cancelled")
    /\ UNCHANGED << transport, connects, chars, device, client, subscribed,
                    command_data, event, status, count, part, data, packet,
                    frag, raised, sent, gatt, inflight, devReq, devEmitted,
                    mail_req, latest, nreads, frames, svcVars, offlineVars >>

\* ------------------------------------------------------------- environment
\* The device sends a notification for the last request it received.
DeviceNotify(r) ==
    /\ client = "connected"
    /\ subscribed
    /\ devReq > 0
    /\ devEmitted < MaxNotifs
    /\ Len(inflight) < MaxInflight
    /\ r \in Replies(sent[devReq])
    /\ devEmitted' = devEmitted + 1
    /\ inflight' = Append(inflight, [data |-> r, req |-> devReq])
    /\ UNCHANGED << transport, connects, chars, pc, ret, pending, device, client,
                    subscribed, command_data, event, status, count, part, data,
                    packet, frag, raised, sent, gatt, devReq, mail_req,
                    latest, nreads, frames, svcVars, offlineVars >>

\* _notification_handler, called by the BLE stack between two steps of the
\* coroutine.
Notify ==
    /\ client = "connected"
    /\ subscribed
    /\ inflight # <<>>
    /\ inflight' = Tail(inflight)
    /\ latest' = Head(inflight).data
    /\ IF command_data = None
       THEN /\ command_data' = Head(inflight).data
            /\ event' = TRUE
            /\ mail_req' = Head(inflight).req
       ELSE UNCHANGED << command_data, event, mail_req >>
    /\ UNCHANGED << transport, connects, chars, pc, ret, pending, device, client,
                    subscribed, status, count, part, data, packet, frag, raised,
                    sent, gatt, devReq, devEmitted, nreads, frames, svcVars, offlineVars >>

\* The BLE link is lost.
LinkDrop ==
    /\ client = "connected"
    /\ pc # "done"
    /\ client' = "closed"
    /\ subscribed' = FALSE
    /\ inflight' = <<>>
    /\ UNCHANGED << transport, connects, chars, pc, ret, pending, device,
                    command_data, event, status, count, part, data, packet,
                    frag, raised, sent, gatt, devReq, devEmitted, mail_req,
                    latest, nreads, frames, svcVars, offlineVars >>

Next ==
    \/ \E geo \in Geometries : Call(geo)
    \/ \E n \in CharCounts : ConnectOK(n)
    \/ ConnectFail
    \/ StartNotify
    \/ NotifySleepDone
    \/ WriteFragment
    \/ SleepDone
    \/ ReadReturn
    \/ ReadTimeout
    \/ StopNotify
    \/ Disconnect
    \/ Cancel
    \/ \E r \in AllReplies : DeviceNotify(r)
    \/ Notify
    \/ LinkDrop

Spec == Init /\ [][Next]_vars

\* Two calls of update_image one after the other, for a tag that is in
\* range (both connection attempts succeed) or out of range (both fail).
InitAgain == transport \in { << TRUE, TRUE >>, << FALSE, FALSE >> } /\ Idle

NextAgain == CallAgain \/ Next

SpecAgain == InitAgain /\ [][NextAgain]_vars

\* ------------------------------------------- packet.py, the older client
\* packet.py's write_image differs from update_image in GiciskyClient alone:
\* connecting, start_notify, stop_notify and the finally clause are the same.
\* write_cmd up to its first await: write() starts on the first fragment;
\* the mailbox is left as it is.
PacketBeginRequest(pkt) ==
    /\ packet' = pkt
    /\ frag' = 0
    /\ pc' = "write"

\* sleep(0.5) is over; GiciskyClient.write_image builds its image packets,
\* which reads device.resolution, and issues the Start request.
PacketWriteImage ==
    /\ pc = "notify_sleep"
    /\ IF device.resolution
       THEN /\ PacketBeginRequest(MakeCmdPacket(1, device))
            /\ UNCHANGED << ret, pending, raised >>
       ELSE /\ raised' = "AttributeError"
            /\ ExitUpdate("False")
            /\ UNCHANGED << packet, frag >>
    /\ UNCHANGED << transport, connects, chars, device, client, subscribed,
                    command_data, event, status, count, part, data, sent, gatt,
                    inflight, devReq, devEmitted, mail_req, latest, nreads,
                    frames, svcVars, offlineVars >>

\* write(): one client.write_gatt_char of 20 bytes of the current packet.
PacketWriteFragment ==
    /\ pc = "write"
    /\ IF client = "connected"
       THEN /\ sent' = IF frag = 0 THEN Append(sent, packet) ELSE sent
            /\ frag' = frag + 1
            /\ pc' = "sleep"
            /\ IF frag + 1 = PacketNumFragments(packet)
               THEN devReq' = devReq + 1 /\ devEmitted' = 0
               ELSE UNCHANGED << devReq, devEmitted >>
            /\ UNCHANGED raised
       ELSE /\ FinishWriteImage("BleakError")
            /\ UNCHANGED << sent, frag, devReq, devEmitted >>
    /\ UNCHANGED << transport, connects, chars, ret, pending, device, client,
                    subscribed, command_data, event, status, count, part, data,
                    packet, gatt, inflight, mail_req, latest, nreads, frames,
                    svcVars, offlineVars >>

\* write(): sleep(0.05) is over; next fragment, or on to read().
PacketSleepDone ==
    /\ pc = "sleep"
    /\ pc' = IF frag < PacketNumFragments(packet) THEN "write" ELSE "read"
    /\ UNCHANGED << transport, connects, chars, ret, pending, device, client,
                    subscribed, command_data, event, status, count, part, data,
                    packet, frag, raised, sent, gatt, inflight, devReq,
                    devEmitted, mail_req, latest, nreads, frames, svcVars,
                    offlineVars >>

\* read() returns command_data and resets the mailbox; the loop of
\* write_image picks the next request by the first byte of the response.
PacketReadReturn ==
    /\ pc = "read"
    /\ event
    /\ LET d == OrEmpty(command_data)
           step == PacketStep(d)
       IN  /\ data' = d
           /\ nreads' = nreads + 1
           /\ frames' = IF WellFormedIndexFrame(d) THEN frames + 1 ELSE frames
           /\ command_data' = None
           /\ event' = FALSE
           /\ IF step \in {"leave", "break"}
              THEN /\ FinishWriteImage("none")
                   /\ UNCHANGED << packet, frag, part >>
              ELSE /\ Len(sent) < MaxWrites
                   /\ raised' = raised
                   /\ part' = IF step = "chunk" THEN IndexOf(d) ELSE part
                   /\ PacketBeginRequest(
                         CASE step = "size" -> MakeCmdPacket(2, device)
                           [] step = "begin" -> MakeCmdPacket(3, device)
                           [] OTHER -> MakeImgPacket(IndexOf(d), device))
    /\ UNCHANGED << transport, connects, chars, ret, pending, device, client,
                    subscribed, status, count, sent, gatt, inflight, devReq,
                    devEmitted, mail_req, latest, svcVars, offlineVars >>

\* The device sends a notification: after the last request it received, or
\* of its own accord once notifications are on (req 0).  The client does not
\* know which payloads belong to which request.
PacketDeviceNotify(r) ==
    /\ client = "connected"
    /\ subscribed
    /\ devEmitted < MaxNotifs
    /\ Len(inflight) < MaxInflight
    /\ r \in PacketReplies
    /\ devEmitted' = devEmitted + 1
    /\ inflight' = Append(inflight, [data |-> r, req |-> devReq])
    /\ UNCHANGED << transport, connects, chars, pc, ret, pending, device, client,
                    subscribed, command_data, event, status, count, part, data,
                    packet, frag, raised, sent, gatt, devReq, mail_req,
                    latest, nreads, frames, svcVars, offlineVars >>

\* packet.py's _notification_handler: the payload replaces what the mailbox
\* holds.
PacketNotify ==
    /\ client = "connected"
    /\ subscribed
    /\ inflight # <<>>
    /\ inflight' = Tail(inflight)
    /\ latest' = Head(inflight).data
    /\ command_data' = Head(inflight).data
    /\ event' = TRUE
    /\ mail_req' = Head(inflight).req
    /\ UNCHANGED << transport, connects, chars, pc, ret, pending, device, client,
                    subscribed, status, count, part, data, packet, frag, raised,
                    sent, gatt, devReq, devEmitted, nreads, frames, svcVars,
                    offlineVars >>

InitPacket ==
    /\ transport \in Scripts(1)
    /\ \E dev \in PacketDevices : IdleWith(dev)

NextPacket ==
    \/ \E dev \in PacketDevices : Call(dev)
    \/ \E n \in CharCounts : ConnectOK(n)
    \/ ConnectFail
    \/ StartNotify
    \/ PacketWriteImage
    \/ PacketWriteFragment
    \/ PacketSleepDone
    \/ PacketReadReturn
    \/ ReadTimeout
    \/ StopNotify
    \/ Disconnect
    \/ Cancel
    \/ \E r \in PacketReplies : PacketDeviceNotify(r)
    \/ PacketNotify
    \/ LinkDrop

SpecPacket == InitPacket /\ [][NextPacket]_vars

\* ------------------------------------------------ packet builders alone
\* A GiciskyClient is built for a DeviceEntry and asked for its size packet:
\* _make_cmd_packet(0x02).
BuildSizePacket ==
    /\ pc = "idle"
    /\ packet = NoPacket
    /\ packet' = MakeCmdPacket(2, device)
    /\ UNCHANGED << transport, connects, chars, pc, ret, pending, device, client,
                    subscribed, command_data, event, status, count, part, data,
                    frag, raised, sent, gatt, inflight, devReq, devEmitted,
                    mail_req, latest, nreads, frames, svcVars, offlineVars >>

\* The GiciskyClient is asked for its image packets, part 0, 1, ... up to
\* the last part of packet_size bytes: _make_img_packet(part).
BuildImgPacket ==
    /\ pc = "idle"
    /\ packet # NoPacket
    /\ count < TotalChunks(device)
    /\ sent' = Append(sent, MakeImgPacket(count, device))
    /\ count' = count + 1
    /\ UNCHANGED << transport, connects, chars, pc, ret, pending, device, client,
                    subscribed, command_data, event, status, part, data, packet,
                    frag, raised, gatt, inflight, devReq, devEmitted,
                    mail_req, latest, nreads, frames, svcVars, offlineVars >>

InitCodec == transport = <<>> /\ \E dev \in CodecGeometries : IdleWith(dev)

NextCodec == BuildSizePacket \/ BuildImgPacket

SpecCodec == InitCodec /\ [][NextCodec]_vars

\* ------------------------------------------------------- the codec alone
\* write_image hands its image to the codec:
\* self.image_packets = self.get_pixel_data(image).
Encode ==
    /\ pc = "idle"
    /\ image # NoImage
    /\ image_packets = <<>>
    /\ image_packets' = GetPixelData(image, device)
    /\ UNCHANGED << xferVars, svcVars, image, adv >>

\* _make_img_packet(count) on the encoded buffer, with the bytes of its
\* slice, for the parts the transfer model follows.
SliceImgPacket ==
    /\ pc = "idle"
    /\ image_packets # <<>>
    /\ count <= MaxCount
    /\ count < TotalChunks(device)
    /\ LET pkt == MakeImgPacket(count, device)
           start == count * ChunkSize
       IN  sent' = Append(sent,
                     ("payload" :> PySlice(image_packets, start,
                                      start + Min(ChunkSize, PacketSize(device) - start)))
                         @@ pkt)
    /\ count' = count + 1
    /\ UNCHANGED << transport, connects, chars, pc, ret, pending, device, client,
                    subscribed, command_data, event, status, part, data, packet,
                    frag, raised, gatt, inflight, devReq, devEmitted,
                    mail_req, latest, nreads, frames, svcVars, offlineVars >>

InitPixels ==
    /\ transport = <<>>
    /\ \E dev \in PixelGeometries : \E img \in Images(dev) : IdleImage(dev, img)

NextPixels == Encode \/ SliceImgPacket

SpecPixels == InitPixels /\ [][NextPixels]_vars

\* ------------------------------------------------------- the advertisement parser
\* _start_update for an advertisement with manufacturer data d under 0x5053
\* and one service uuid: _parse_gicisky(service_info, d).
ParseGicisky(d) ==
    /\ pc = "idle"
    /\ adv.parsed < MaxAdverts
    /\ LET seen == [adv EXCEPT !.data = d, !.parsed = @ + 1]
           dev == IF Len(d) = 5 THEN Lookup(d[1]) ELSE KeyError
       IN  IF Len(d) # 5 \/ dev = KeyError
           THEN adv' = [seen EXCEPT !.ret = "False"]
           ELSE LET named == [seen EXCEPT !.device_id = d[1],
                                          !.device_type = dev.model,
                                          !.title = dev.name,
                                          !.name = dev.name]
                IN  IF "resolution" \notin DeviceEntryFields
                    THEN adv' = [named EXCEPT !.ret = "AttributeError"]
                    ELSE adv' = [named EXCEPT
                                   !.type = dev.model,
                                   !.manufacturer = dev.manufacturer,
                                   !.sw_version = d[3] * 256 + d[4],
                                   !.battery = BatteryPercent(d[2]),
                                   !.voltage = d[2],
                                   !.ret = "True"]
    /\ UNCHANGED << xferVars, svcVars, image, image_packets >>

InitParser == transport = <<>> /\ Idle

NextParser == \E d \in Adverts : ParseGicisky(d)

SpecParser == InitParser /\ [][NextParser]_vars

\* ------------------------------------------------------- the write service
\* device_id values of a service call: registered tags and an unknown one.
Registered == {"tag1", "tag2"}

DeviceIds == Registered \cup {"ghost"}

RECURSIVE SeqsUpTo(_, _)
SeqsUpTo(S, n) ==
    IF n = 0 THEN {<<>>}
    ELSE LET shorter == SeqsUpTo(S, n - 1)
         IN  shorter \cup { Append(q, x) : q \in shorter, x \in S }

\* Lists that name both registered tags.
SeveralDevices == { << "tag1", "tag2" >>, << "tag2", "tag1" >> }

\* service.data.get("device_id"): one id as a str, or a list of ids
IdInputs ==
    { [str |-> TRUE, ids |-> <<d>>] : d \in DeviceIds }
        \cup { [str |-> FALSE, ids |-> q] :
                  q \in SeqsUpTo(DeviceIds, MaxIds) \cup SeveralDevices }

\* data.device of the config entry of a registered tag
DeviceOf(id) ==
    IF id = "tag1" THEN [width |-> 40, height |-> 48, red |-> FALSE]
                   ELSE [width |-> 40, height |-> 40, red |-> TRUE]

\* Python binds the arguments of a call to the function's parameters
\* (update_image declares no defaults, *args or **kwargs).
BindsArguments(nargs, nparams) == nargs = nparams

\* The retry loop after one attempt has returned: what it does next.
RetryStep(attempt, success) ==
    IF success THEN "break"
    ELSE IF attempt < max_retries THEN "sleep"
    ELSE "raise"

\* The call ends (normally or by an exception); `async with` releases the lock.
EndCall(c, outcome) ==
    /\ calls' = [calls EXCEPT ![c].pc = "ended", ![c].outcome = outcome]
    /\ lock' = 0

\* writeservice holds the lock: it runs up to its first await, the executor
\* job that renders the image of the first device.
EnterLocked(c, ids) ==
    IF ids = <<>>
    THEN calls' = [calls EXCEPT ![c].pc = "ended", ![c].ids = ids,
                                ![c].outcome = "ok"] /\ lock' = 0
    ELSE IF ids[1] \notin Registered
    THEN calls' = [calls EXCEPT ![c].pc = "ended", ![c].ids = ids, ![c].i = 1,
                                ![c].outcome = "ValueError"] /\ lock' = 0
    ELSE calls' = [calls EXCEPT ![c].pc = "render", ![c].ids = ids, ![c].i = 1]
         /\ lock' = c

\* A service that does not serialise its invocations.
LockFreeAlways == TRUE

\* asyncio.Lock.acquire takes the lock without waiting when nobody holds it
\* and nobody is queued for it.
LockFree == lock = 0 /\ waiters = <<>>

\* The service is called: `async with lock` takes a free lock at once, or
\* queues the call behind the holder and the earlier waiters.
ServiceCall(c, input) ==
    /\ calls[c].pc = "idle"
    /\ IF LockFree
       THEN EnterLocked(c, input.ids) /\ UNCHANGED waiters
       ELSE /\ calls' = [calls EXCEPT ![c].pc = "lock_wait", ![c].ids = input.ids]
            /\ waiters' = Append(waiters, c)
            /\ UNCHANGED lock
    /\ UNCHANGED << xferVars, prev_midstream, offlineVars >>

\* The first waiter is woken after a release and takes the lock.
LockGranted(c) ==
    /\ calls[c].pc = "lock_wait"
    /\ lock = 0
    /\ waiters # <<>>
    /\ Head(waiters) = c
    /\ waiters' = Tail(waiters)
    /\ EnterLocked(c, calls[c].ids)
    /\ UNCHANGED << xferVars, prev_midstream, offlineVars >>

\* The image is rendered; the retry loop makes its first attempt:
\* update_image(ble_device, data.device, image, threshold, red_threshold).
RenderDone(c) ==
    /\ calls[c].pc = "render"
    /\ IF BindsArguments(UpdateImageArgs, UpdateImageParams)
       THEN /\ calls' = [calls EXCEPT ![c].pc = "update_image", ![c].attempt = 1]
            /\ StartUpdateImage(DeviceOf(calls[c].ids[calls[c].i]))
            /\ UNCHANGED << lock, waiters >>
       ELSE /\ calls' = [calls EXCEPT ![c].pc = "ended", ![c].attempt = 1,
                                      ![c].outcome = "TypeError"]
            /\ lock' = 0
            /\ UNCHANGED << xferVars, waiters >>
    /\ UNCHANGED << prev_midstream, offlineVars >>

NextService ==
    \/ \E c \in 1..MaxCalls, input \in IdInputs : ServiceCall(c, input)
    \/ \E c \in 1..MaxCalls : LockGranted(c)
    \/ \E c \in 1..MaxCalls : RenderDone(c)

SpecService == InitService /\ [][NextService]_vars

\* The event loop runs every task that is ready: a waiter woken by a release
\* takes the lock, and an invocation inside the locked body goes on.
SpecServiceFair ==
    /\ SpecService
    /\ WF_vars(\E c \in 1..MaxCalls : LockGranted(c))
    /\ WF_vars(\E c \in 1..MaxCalls : RenderDone(c))

\* ------------------------------------------------------------------ claims
\* The first three bytes of d are 01 F4 00.
StartPrefix(d) == Len(d) >= 3 /\ SubSeq(d, 1, 3) = <<1, 244, 0>>

\* Image-chunk packets written in this attempt.
ChunkWrites == Cardinality({ i \in DOMAIN sent : sent[i].uuid = img_uuid })

\* A chunk packet is (partly) written and its response has not been read:
\* data is still the response that preceded it.
ChunkOutstanding ==
    /\ status = "IMAGE_DATA"
    /\ pc \in {"sleep", "read"}
    /\ packet.uuid = img_uuid

\* write_image has been left.
LeftWriteImage == pc \in {"stop_notify", "disconnect", "done"}

\* a occurs before b in the calls made on the client.
Precedes(a, b) ==
    \E i, j \in DOMAIN gatt : i < j /\ gatt[i] = a /\ gatt[j] = b

\* C1: a Start response that does not begin with 01 F4 00 makes write_image
\* raise its packet error with the status still START, and the Start command
\* stays the only protocol packet written in the attempt.
C1_StartRejected ==
    (nreads = 1 /\ ~StartPrefix(data)) =>
        /\ raised = "PacketError"
        /\ status = "START"
        /\ LeftWriteImage
        /\ sent = << MakeCmdPacket(1, device) >>

C1_Witness ==
    /\ pc = "done"
    /\ nreads = 1
    /\ data \in { <<1, 0, 0>>, <<1, 244>> }
    /\ raised = "PacketError"

\* C2: an attempt in which a phase failed (a response was rejected or a wait
\* timed out) returns False, and update_image returns True only after an
\* accepted handshake.
C2_FailureReturnsFalse ==
    (pc = "done" /\ ret # "Cancelled") =>
        /\ raised \in {"PacketError", "Timeout"} => ret = "False"
        /\ ret = "True" => status = "IMAGE_DATA"

\* The first successful connection attempt of the transport script (0: none).
FirstSuccess ==
    IF \E k \in DOMAIN transport : transport[k]
    THEN CHOOSE k \in DOMAIN transport :
            transport[k] /\ \A j \in 1..(k - 1) : ~transport[j]
    ELSE 0

\* Call c is the only invocation of the service, for one registered tag, and
\* has ended.
SingleCallEnded(c) ==
    /\ calls[c].pc = "ended"
    /\ Len(calls[c].ids) = 1
    /\ calls[c].ids[1] \in Registered
    /\ \A o \in 1..MaxCalls : o # c => calls[o].pc = "idle"

\* C3: when attempts 1..k-1 fail and attempt k succeeds (k <= 3), the service
\* call makes exactly k connection attempts and ends without an error.
C3_RetryUntilSuccess ==
    \A c \in 1..MaxCalls :
        (SingleCallEnded(c) /\ FirstSuccess > 0) =>
            /\ calls[c].outcome = "ok"
            /\ calls[c].attempt = FirstSuccess
            /\ connects = FirstSuccess

\* C4: when all 3 attempts fail, the service call ends with
\* HomeAssistantError after exactly 3 connection attempts.
C4_RetriesExhausted ==
    \A c \in 1..MaxCalls :
        (SingleCallEnded(c) /\ FirstSuccess = 0) =>
            /\ calls[c].outcome = "HomeAssistantError"
            /\ calls[c].attempt = max_retries
            /\ connects = max_retries

\* C5: an image-chunk packet carries the index the device reported in the
\* response just before it.
C5_ChunkIndexIsReported ==
    ChunkOutstanding => packet.hdr = LE32(IndexOf(data))

\* C6: in the ImageData loop no further image chunk is written after a chunk
\* response whose index has reached the total chunk count.
C6_StopsAtTotal ==
    (ChunkOutstanding /\ count >= 1) => part < TotalChunks(device)

\* C7: when a malformed frame follows the accepted handshake and the
\* well-formed index frames, write_image returns without an error after one
\* chunk exchange per well-formed index frame and 3 handshake exchanges.
C7_MalformedEndsTransfer ==
    (status = "IMAGE_DATA" /\ ~WellFormedIndexFrame(data)) =>
        /\ LeftWriteImage
        /\ raised = "none"
        /\ ChunkWrites = frames
        /\ Len(sent) = 3 + frames
        /\ nreads = Len(sent)

C7_Witness ==
    /\ pc = "done"
    /\ ret = "True"
    /\ status = "IMAGE_DATA"
    /\ ~WellFormedIndexFrame(data)
    /\ part = 2
    /\ frames = 3
    /\ ChunkWrites = 3
    /\ Len(sent) = 6

\* C8: the notification a read() returns was sent by the device for the
\* request that read() belongs to, never for an earlier request.
C8_NoStaleResponse ==
    [][nreads' = nreads + 1 => mail_req = nreads + 1]_vars

\* C9: read() returns the latest notification delivered since the request
\* cleared the mailbox.
C9_LatestNotification ==
    [][nreads' = nreads + 1 => data' = latest]_vars

\* C10: once the subscription was started, stop_notify is called before the
\* client is disconnected, on every exit of update_image.
C10_StopBeforeDisconnect ==
    (pc = "done" /\ Precedes("start_notify", "disconnect")) =>
        Precedes("stop_notify", "disconnect")

\* C11: an attempt that established a connection never ends with the client
\* still connected, whatever ended it.
C11_EndsDisconnected == (pc = "done" /\ client # "none") => client = "closed"

\* An attempt that timed out has returned, disconnected by the finally clause.
C11_Witness ==
    /\ pc = "done"
    /\ raised = "Timeout"
    /\ client = "closed"
    /\ gatt = << "start_notify", "stop_notify", "disconnect" >>

\* Invocation c is inside the body of `async with lock`, where every
\* update_image attempt of the service is made.
InLockedBody(c) == calls[c].pc \in {"render", "update_image"}

\* C12: whatever the interleaving of the invocations of the write service, at
\* most one of them is inside the locked body, it is the holder of the lock,
\* and a transfer is running only on behalf of that invocation.
C12_OneTransferAtATime ==
    /\ \A c1, c2 \in 1..MaxCalls :
          InLockedBody(c1) /\ InLockedBody(c2) => c1 = c2
    /\ \A c \in 1..MaxCalls : InLockedBody(c) => lock = c
    /\ pc \notin {"idle", "done"} =>
          \E c \in 1..MaxCalls : calls[c].pc = "update_image"

\* Two invocations overlap: one holds the lock, the other is queued on it.
C12_Witness ==
    \E c1, c2 \in 1..MaxCalls :
        /\ calls[c1].pc = "render"
        /\ lock = c1
        /\ calls[c2].pc = "lock_wait"
        /\ waiters = << c2 >>

\* C13: requests and response waits alternate: every protocol packet but the
\* last one written has had its wait ended by a read() that returned, and the
\* last one is the only request that can be outstanding; after a wait that
\* timed out nothing more is written.
C13_OneOutstanding ==
    /\ Len(sent) \in {nreads, nreads + 1}
    /\ (pc = "write" /\ frag = 0) => Len(sent) = nreads
    /\ raised = "Timeout" => (LeftWriteImage /\ Len(sent) = nreads + 1)

\* The second image chunk is outstanding; the four requests before it were
\* each answered before the next was written.
C13_Witness ==
    /\ pc = "read"
    /\ Len(sent) = 5
    /\ nreads = 4
    /\ sent[5] = MakeImgPacket(1, device)

\* C14: an attempt never resumes mid-stream.  Whatever the attempt before
\* it reached, an attempt goes through its own establish_connection, starts
\* from a GiciskyClient with an empty mailbox, writes the Start command as
\* its first protocol packet, and has its chunk counter at 0 while that
\* command is outstanding.
C14_NoResume ==
    /\ sent # <<>> => sent[1] = MakeCmdPacket(1, device)
    /\ (nreads = 0 /\ pc \in {"write", "sleep", "read"}) =>
          (status = "START" /\ count = 0 /\ part = 0)
    /\ pc \in {"start_notify", "notify_sleep"} =>
          (command_data = None /\ ~event)
    /\ (prev_midstream /\ client # "none") => connects = Len(transport)

\* The attempt before this one timed out between two image chunks; this one
\* has its own connection and has written the Start command.
C14_Witness ==
    /\ prev_midstream
    /\ client = "connected"
    /\ pc = "read"
    /\ sent = << MakeCmdPacket(1, device) >>
    /\ count = 0

\* The place of a status in the order START, SIZE_DATA, IMAGE, IMAGE_DATA.
Rank(st) ==
    CASE st = "START" -> 0
      [] st = "SIZE_DATA" -> 1
      [] st = "IMAGE" -> 2
      [] OTHER -> 3

\* The packets written so far are, in order, Start, the size packet,
\* begin-image, and after them only image chunks.
SentInOrder ==
    \A i \in DOMAIN sent :
        IF i <= 3 THEN sent[i] = MakeCmdPacket(i, device)
        ELSE sent[i].uuid = img_uuid

\* An image chunk has been written only in status IMAGE_DATA, after three
\* responses were read.
ChunksAfterHandshake ==
    (\E i \in DOMAIN sent : sent[i].uuid = img_uuid) =>
        (status = "IMAGE_DATA" /\ nreads >= 3)

\* C15: the requests of an attempt are a prefix of Start, size packet,
\* begin-image, image chunks; no chunk is written before the three handshake
\* responses were accepted; and the status never goes back and never skips
\* a phase.
C15_PhaseOrder ==
    /\ [](SentInOrder /\ ChunksAfterHandshake)
    /\ [][status' = status \/ Rank(status') = Rank(status) + 1]_vars

\* The whole order has happened: three handshake packets and two chunks.
C15_Witness ==
    /\ Len(sent) = 5
    /\ status = "IMAGE_DATA"
    /\ sent[4].uuid = img_uuid
    /\ sent[5].uuid = img_uuid

\* d is not empty and its byte 0 is 02.
SizePrefix(d) == Len(d) >= 1 /\ d[1] = 2

\* C16: a size response that is empty or does not begin with 02, and a
\* begin-image response that is shorter than 6 bytes or does not begin with
\* 05 00, make write_image raise its packet error in that status; the request
\* it answered stays the last packet written in the attempt.
C16_HandshakeRejected ==
    /\ (nreads = 2 /\ ~SizePrefix(data)) =>
          /\ raised = "PacketError"
          /\ status = "SIZE_DATA"
          /\ LeftWriteImage
          /\ sent = << MakeCmdPacket(1, device), MakeCmdPacket(2, device) >>
    /\ (nreads = 3 /\ ~WellFormedIndexFrame(data)) =>
          /\ raised = "PacketError"
          /\ status = "IMAGE"
          /\ LeftWriteImage
          /\ sent = << MakeCmdPacket(1, device), MakeCmdPacket(2, device),
                       MakeCmdPacket(3, device) >>

\* A begin-image response of three bytes ended the attempt.
C16_Witness ==
    /\ pc = "done"
    /\ nreads = 3
    /\ data = <<5, 0, 1>>
    /\ raised = "PacketError"
    /\ Len(sent) = 3

\* C17: a response wait that times out ends the transfer: the request that
\* got no response stays the last packet of the attempt, in whatever status
\* it was written; and an attempt made after a transfer that timed out
\* between chunks starts in status START and sends its chunks from index 0.
C17_TimeoutEndsTransfer ==
    /\ raised = "Timeout" =>
          /\ LeftWriteImage
          /\ Len(sent) = nreads + 1
          /\ sent[Len(sent)] = RequestFor(status, count, device)
    /\ (prev_midstream /\ nreads = 0 /\ sent # <<>>) =>
          (status = "START" /\ sent[1] = RequestFor("START", 0, device))
    /\ (prev_midstream /\ Len(sent) >= 4) => sent[4] = MakeImgPacket(0, device)

\* The attempt after a transfer that timed out between chunks has written
\* its own first chunk.
C17_Witness ==
    /\ prev_midstream
    /\ status = "IMAGE_DATA"
    /\ count = 0
    /\ Len(sent) = 4

\* C18: when the Gicisky service has fewer or more than 3 characteristics,
\* the attempt goes straight to its end: notifications are never subscribed,
\* no protocol packet is written, and update_image returns False.
C18_WrongCharCount ==
    (chars # 0 /\ chars # RequiredChars) =>
        /\ pc \in {"disconnect", "done"}
        /\ pc = "done" => ret = "False"
        /\ ~subscribed
        /\ \A i \in DOMAIN gatt : gatt[i] # "start_notify"
        /\ sent = <<>>

\* update_image has returned False for a service with four characteristics.
C18_Witness ==
    /\ pc = "done"
    /\ chars = 4
    /\ ret = "False"
    /\ sent = <<>>

\* C19: an attempt ended by the check of the number of characteristics has
\* called clear_cache on the client, and after it disconnect, by the time
\* update_image returns.
C19_CacheClearedFirst ==
    (pc = "done" /\ chars # 0 /\ chars # RequiredChars) =>
        Precedes("clear_cache", "disconnect")

RECURSIVE SumRange(_, _, _)
\* The payload lengths of packets a .. b of a sequence, added up.
SumRange(pkts, a, b) ==
    IF a > b THEN 0
    ELSE IF a = b THEN pkts[a].len
    ELSE LET m == (a + b) \div 2
         IN  SumRange(pkts, a, m) + SumRange(pkts, m + 1, b)

\* The payload lengths of a sequence of image packets, added up.
SumLens(pkts) == SumRange(pkts, 1, Len(pkts))

\* C21: the image packets for parts 0, 1, ... each carry their part as a
\* 4-byte little-endian number and the slice at offset part * 240 of length
\* min(240, totalSize - part * 240); each slice begins where the one before
\* ended, and once all ceil(totalSize / 240) packets are built their payload
\* lengths add up to totalSize.
C21_ChunksTile ==
    /\ \A i \in DOMAIN sent :
          /\ sent[i].uuid = img_uuid
          /\ Len(sent[i].hdr) = 4
          /\ IndexOf(<<0, 0>> \o sent[i].hdr) = i - 1
          /\ sent[i].off = (i - 1) * ChunkSize
          /\ sent[i].len = Min(ChunkSize, PacketSize(device) - sent[i].off)
          /\ i > 1 => sent[i].off = sent[i - 1].off + sent[i - 1].len
    /\ Len(sent) = TotalChunks(device) => SumLens(sent) = PacketSize(device)

\* All 400 image packets of the 800x480 two-plane tag are built; the last
\* one is full.
C21_Witness ==
    /\ device.width = 800
    /\ Len(sent) = 400
    /\ sent[400].len = ChunkSize
    /\ SumLens(sent) = 96000

\* Bit k (from 0) of a packed plane, read MSB-first: bit 7 - (k mod 8) of
\* byte k div 8.
UnpackBit(buf, k) == (buf[k \div 8 + 1] \div (2 ^ (7 - (k % 8)))) % 2 = 1

\* The codec has run.
Encoded == image # NoImage /\ image_packets # <<>>

\* C22: for each registered device type the codec's output has
\* ceil(width * height / 8) bytes per plane: one plane without red, two
\* with it.
C22_RegisteredLength ==
    (Encoded /\ device \in RegisteredGeometries) =>
        Len(image_packets) =
            ((device.width * device.height + 7) \div 8) * (IF device.red THEN 2 ELSE 1)

\* The picture of the 250x132 one-plane tag is encoded in 4125 bytes.
C22_Witness ==
    /\ Encoded
    /\ device = GeometryOf(DEVICE_TYPES[160])
    /\ Len(image_packets) = 4125

\* C23: unpacking plane 0 MSB-first gives back, for every pixel, whether its
\* luminance is above the threshold, and the bits of a final partial byte
\* below the last pixel are zero.
C23_RoundTrip ==
    Encoded =>
        LET n == device.width * device.height
        IN  /\ \A k \in 0..(n - 1) :
                 UnpackBit(image_packets, k) = Bright(PixelOf(image, PixelAt(k, device), device))
            /\ n % 8 # 0 => image_packets[NumBytes(n)] % (2 ^ (8 - (n % 8))) = 0

\* A 3x3 picture whose ninth pixel alone is bright: the second byte of the
\* plane holds it in its top bit.
C23_Witness ==
    /\ Encoded
    /\ device.width = 3 /\ device.height = 3
    /\ image.kind = "dot" /\ image.k = 8 /\ image.fg = Grey151 /\ image.bg = Black
    /\ image_packets[1] = 0
    /\ image_packets[2] = 128

\* Bit k of plane 0 or 1 of an encoded buffer: plane 1 begins after the
\* bytes of plane 0.
PlaneBitAt(buf, plane, k, dev) ==
    UnpackBit(buf, plane * NumBytes(dev.width * dev.height) * 8 + k)

\* mirror_x of the registered device type of a geometry, FALSE for a geometry
\* that is not registered.
MirrorX(dev) ==
    \E c \in DOMAIN DEVICE_TYPES :
        GeometryOf(DEVICE_TYPES[c]) = dev /\ DEVICE_TYPES[c].mirror_x

\* The pixel visited k-th in row-major order, the columns of a row from
\* high to low on a mirrored device.
RowMajorAt(k, dev) ==
    [x |-> IF MirrorX(dev) THEN dev.width - 1 - (k % dev.width) ELSE k % dev.width,
     y |-> k \div dev.width]

\* C24: the codec visits the pixels row by row, the columns of a row from
\* high to low when the device has mirror_x, and bit k of a plane is the
\* pixel visited k-th in that order.
C24_RowMajor ==
    Encoded =>
        \A k \in 0..(device.width * device.height - 1) :
            \A plane \in (IF device.red THEN {0, 1} ELSE {0}) :
                PlaneBitAt(image_packets, plane, k, device)
                    = PlaneBit(plane, PixelOf(image, RowMajorAt(k, device), device))

\* A pixel with R above and G below the red threshold.
RedPixel(c) == c.r > red_threshold /\ c.g < red_threshold

\* C25: on a two-plane device a bit of plane 1 is set exactly for the pixels
\* with R > red threshold and G < red threshold; a picture without such a
\* pixel gives a plane 1 of ceil(width * height / 8) zero bytes.
C25_RedPlane ==
    (Encoded /\ device.red) =>
        LET n == device.width * device.height
            pixel(k) == PixelOf(image, PixelAt(k, device), device)
        IN  /\ \A k \in 0..(n - 1) :
                 PlaneBitAt(image_packets, 1, k, device) = RedPixel(pixel(k))
            /\ (~RedPixel(image.fg) /\ ~RedPixel(image.bg)) =>
                 /\ Len(image_packets) = 2 * ((n + 7) \div 8)
                 /\ \A j \in 1..((n + 7) \div 8) :
                        image_packets[(n + 7) \div 8 + j] = 0

\* The all-black picture of the 250x128 two-plane tag: 4000 bytes of plane
\* 1, the first and the last of them zero.
C25_Witness ==
    /\ Encoded
    /\ device = [width |-> 250, height |-> 128, red |-> TRUE]
    /\ image.kind = "uniform" /\ image.bg = Black
    /\ Len(image_packets) = 8000
    /\ image_packets[4001] = 0 /\ image_packets[8000] = 0

\* C26: the buffer that is transmitted is all of plane 0 followed by all of
\* plane 1 on a device with the second plane, plane 0 alone otherwise, and
\* byte j of chunk i is byte i * 240 + j of it.
C26_PlaneOrder ==
    Encoded =>
        LET buffer == IF device.red
                      THEN PlaneBytes(image, device, 0) \o PlaneBytes(image, device, 1)
                      ELSE PlaneBytes(image, device, 0)
        IN  /\ image_packets = buffer
            /\ \A i \in DOMAIN sent :
                 \A j \in DOMAIN sent[i].payload :
                     /\ sent[i].hdr = LE32(i - 1)
                     /\ sent[i].payload[j] = buffer[(i - 1) * 240 + j]

\* A 40x40 two-plane picture, black but for a red first pixel: chunk 0
\* carries the 200 bytes of plane 0 and then the start of plane 1, whose
\* first byte has the top bit set; chunk 1 goes on at byte 240.
C26_Witness ==
    /\ Encoded
    /\ device = [width |-> 40, height |-> 40, red |-> TRUE]
    /\ image.kind = "dot" /\ image.k = 0 /\ image.fg = Red /\ image.bg = Black
    /\ Len(sent) = 2
    /\ Len(sent[1].payload) = 240
    /\ sent[1].payload[1] = 0
    /\ sent[1].payload[201] = 128
    /\ Len(sent[2].payload) = 160

\* A packet of the handshake (one opcode byte, or the 8-byte size packet) or
\* an image chunk (4 bytes of part number and its slice).
IsHandshakePacket(pkt) == Len(pkt.hdr) \in {1, 8} /\ pkt.hdr[1] \in {1, 2, 3}

\* C27: in every attempt the subscription and the handshake packets (01,
\* size, 03) use characteristic 0 of the service, the image chunks
\* characteristic 1, and nothing is written to, read from or subscribed on
\* characteristic 2.
C27_Characteristics ==
    /\ subscribed => NotifyChar = Uuids[1]
    /\ NotifyChar # Uuids[3]
    /\ \A pkt \in { sent[i] : i \in DOMAIN sent } \cup ({packet} \ {NoPacket}) :
          /\ pkt.uuid # Uuids[3]
          /\ IsHandshakePacket(pkt) => pkt.uuid = Uuids[1]
          /\ ~IsHandshakePacket(pkt) => (Len(pkt.hdr) = 4 /\ pkt.uuid = Uuids[2])

\* Subscribed, with the three handshake packets and a chunk written.
C27_Witness ==
    /\ subscribed
    /\ Len(sent) >= 4
    /\ sent[1].hdr = <<1>> /\ sent[1].uuid = Uuids[1]
    /\ sent[2].hdr[1] = 2 /\ sent[2].uuid = Uuids[1]
    /\ sent[3].hdr = <<3>> /\ sent[3].uuid = Uuids[1]
    /\ sent[4].hdr = LE32(0) /\ sent[4].uuid = Uuids[2]

\* The slices of n bytes in steps of size are at most size bytes each, none
\* empty, begin at 0, follow each other without gap or overlap and end at n.
FragmentsTile(n, size) ==
    LET m == (n + size - 1) \div size
    IN  /\ FragmentAt(n, size, 1).off = 0
        /\ \A k \in 1..m :
              /\ FragmentAt(n, size, k).len \in 1..size
              /\ FragmentAt(n, size, k).off + FragmentAt(n, size, k).len
                    = IF k = m THEN n ELSE FragmentAt(n, size, k + 1).off

\* C28: write splits a packet into GATT writes of at most the fragment size
\* (160 bytes, 20 in packet.py), issued in order, that put together are the
\* packet; the packet keeps its chunk of at most 240 bytes and its chunk
\* index.
C28_Fragments ==
    (packet # NoPacket /\ pc \in {"write", "sleep", "read"}) =>
        LET n == PacketLen(packet)
            m == (n + 159) \div 160
        IN  /\ FragmentsTile(n, 160)
            /\ FragmentsTile(n, PacketFragmentSize)
            /\ frag <= m
            /\ pc = "write" => frag < m
            /\ pc = "read" => frag = m
            /\ frag >= 1 => sent[Len(sent)] = packet
            /\ ~IsHandshakePacket(packet) =>
                  /\ packet.hdr = LE32(count)
                  /\ packet.len <= 240
                  /\ packet.len = Max(0, Min(240, PacketSize(device) - count * 240))

\* A 244-byte image packet after its two writes of 160 and 84 bytes.
C28_Witness ==
    /\ pc = "read"
    /\ packet # NoPacket
    /\ PacketLen(packet) = 244
    /\ packet.hdr = LE32(0)
    /\ frag = 2
    /\ FragmentAt(244, 160, 1) = [off |-> 0, len |-> 160]
    /\ FragmentAt(244, 160, 2) = [off |-> 160, len |-> 84]

\* What a parser object holds of the device's identity and of its sensors.
Known(a) ==
    << a.device_id, a.device_type, a.title, a.name, a.type, a.manufacturer,
       a.sw_version, a.battery, a.voltage >>

\* The advertisement's payload has 5 bytes and a registered device code.
Recognised(d) == Len(d) = 5 /\ d[1] \in {160, 11, 51, 75, 43}

\* C29: for an advertisement whose device code is not registered, or whose
\* payload is not 5 bytes long, _parse_gicisky returns False, and the
\* identity of the device and its sensor values stay as they were.
C29_UnknownRejected ==
    [][(adv'.parsed = adv.parsed + 1 /\ ~Recognised(adv'.data)) =>
          (adv'.ret = "False" /\ Known(adv') = Known(adv))]_vars

\* An advertisement of the unregistered code 0xFF after one of an EPD 21:
\* rejected, and the tag is still the EPD 21.
C29_Witness ==
    /\ adv.parsed = 2
    /\ adv.data[1] = 255 /\ Len(adv.data) = 5
    /\ adv.ret = "False"
    /\ adv.device_id = 11
    /\ adv.device_type = "EPD 2.1 BWR"

\* The battery percentage, in tenths of a percent, of b tenths of a volt
\* between the min_voltage and max_voltage of a device entry.
BatteryPercentOwnRange(b, dev) ==
    RoundDiv((b - dev.min_voltage) * 1000, dev.max_voltage - dev.min_voltage)

\* C30: for every registered device and battery byte b the battery
\* percentage reported is (b / 10 - min_voltage) * 100 / (max_voltage -
\* min_voltage) with the min_voltage and max_voltage of the device's own
\* entry.
C30_BatteryOwnRange ==
    (adv.parsed > 0 /\ Recognised(adv.data)) =>
        /\ adv.ret = "True"
        /\ adv.battery = BatteryPercentOwnRange(adv.data[2], DEVICE_TYPES[adv.data[1]])

\* C33: an attempt that returns True has written every chunk 0 ..
\* ceil(totalSize / 240) - 1 at least once.
C33_SuccessMeansComplete ==
    (pc = "done" /\ ret = "True") =>
        \A k \in 0..(TotalChunks(device) - 1) :
            \E i \in DOMAIN sent : sent[i].uuid = Uuids[2] /\ sent[i].hdr = LE32(k)

\* The response read() has just returned is a frame 05 00 and four bytes of
\* index, in the chunk phase.
ChunkFrameRead ==
    /\ nreads' = nreads + 1
    /\ status = "IMAGE_DATA"
    /\ Len(data') >= 6 /\ data'[1] = 5 /\ data'[2] = 0

\* C34: the k-th chunk request of an attempt carries index k - 1 whatever
\* indices the device reports, and a reported index that is not the one
\* before plus one does not end the transfer: the next chunk is written.
C34_IndicesCountUp ==
    /\ [](\A i \in DOMAIN sent : sent[i].uuid = Uuids[2] => (i >= 4 /\ sent[i].hdr = LE32(i - 4)))
    /\ [][ChunkFrameRead =>
            (pc' = "write" /\ packet'.uuid = Uuids[2] /\ packet'.hdr = LE32(count + 1)
               /\ count' = count + 1 /\ raised' = raised)]_vars

\* Chunks 0 and 1 were written although the device answered chunk 0 with
\* index 2.
C34_Witness ==
    /\ Len(sent) = 5
    /\ sent[4].hdr = LE32(0)
    /\ sent[5].hdr = LE32(1)
    /\ part = 2
    /\ count = 1

\* The client has been disconnected by the program.
Disconnected == \E i \in DOMAIN gatt : gatt[i] = "disconnect"

\* C35: within one attempt nothing is called on the client after it was
\* disconnected (no write, no stop_notify, no clear_cache) and disconnect is
\* called at most once.
C35_NothingAfterDisconnect ==
    /\ [](/\ Cardinality({ i \in DOMAIN gatt : gatt[i] = "disconnect" }) <= 1
          /\ \A i \in DOMAIN gatt : gatt[i] = "disconnect" => i = Len(gatt)
          /\ Disconnected => (pc = "done" /\ client = "closed"))
    /\ [][Disconnected => (sent' = sent /\ frag' = frag /\ gatt' = gatt)]_vars

\* A transfer that reached the chunks and was then unsubscribed and
\* disconnected, in that order.
C35_Witness ==
    /\ pc = "done"
    /\ ret = "True"
    /\ Len(sent) >= 4
    /\ gatt = << "start_notify", "stop_notify", "disconnect" >>

\* update_image has returned after something failed in the attempt.
AttemptFailed ==
    \/ client = "none"
    \/ chars # 3
    \/ raised # "none"
    \/ \A i \in DOMAIN gatt : gatt[i] # "stop_notify"

\* C36: update_image reports its outcome as a boolean, and False for every
\* failure of connecting, finding the characteristics, subscribing,
\* transferring or unsubscribing.
C36_FailureIsFalse ==
    (pc = "done" /\ ret # "Cancelled") =>
        /\ ret \in {"True", "False"}
        /\ AttemptFailed => ret = "False"

\* C37: wherever the coroutine is suspended, the event is set exactly when
\* command_data is not None, so a read() whose wait succeeded returns
\* command_data and not the fallback.
C37_MailboxInvariant ==
    /\ [](event <=> command_data # None)
    /\ [][nreads' = nreads + 1 => (command_data # None /\ data' = command_data)]_vars

\* read() is about to return an empty notification: command_data is b"",
\* not None, and the event is set.
C37_Witness ==
    /\ pc = "read"
    /\ event
    /\ command_data = <<>>

\* The coroutine is writing a request or sleeping after a fragment of it.
Writing == pc \in {"write", "sleep"}

\* C38: a notification that arrives after the mailbox was cleared and before
\* read() waits is stored, stays stored until read() is reached, and is what
\* that read() returns; the read does not time out.
C38_EarlyNotificationKept ==
    /\ [][(Writing /\ command_data = None /\ Len(inflight') < Len(inflight) /\ subscribed')
            => (command_data' = Head(inflight).data /\ event')]_vars
    /\ [][(Writing /\ event /\ pc' \in {"write", "sleep", "read"})
            => (command_data' = command_data /\ event')]_vars
    /\ [][(pc = "read" /\ event /\ pc' # "read" /\ ret' # "Cancelled" /\ pending' # "Cancelled")
            => (nreads' = nreads + 1 /\ data' = command_data /\ raised' # "Timeout")]_vars

\* The response to the request arrived during the sleep after its last
\* fragment; read() has not started.
C38_Witness ==
    /\ pc = "sleep"
    /\ frag = NumFragments(packet)
    /\ event
    /\ mail_req = Len(sent)
    /\ command_data = << 1, 244, 0 >>

\* C39: the lock is released on every exit of the write service, and a
\* service call that waits for it eventually holds it and performs its
\* transfer.
C39_WaiterTransfers ==
    /\ []((\A c \in 1..MaxCalls : calls[c].pc \in {"idle", "ended"}) => lock = 0)
    /\ \A c \in 1..MaxCalls :
          (calls[c].pc = "lock_wait" /\ calls[c].ids # <<>>
             /\ \A k \in DOMAIN calls[c].ids : calls[c].ids[k] \in Registered)
            ~> (calls[c].pc = "update_image")

\* The part of it about the lock alone: every waiting call gets the lock and
\* ends, and the lock is free when no call is running.
LockIsReleased ==
    /\ []((\A c \in 1..MaxCalls : calls[c].pc \in {"idle", "ended"}) => lock = 0)
    /\ \A c \in 1..MaxCalls : (calls[c].pc = "lock_wait") ~> (calls[c].pc = "ended")

\* C40: a call that names several registered devices ends either with all
\* of them done or with the HomeAssistantError of the device whose
\* max_retries attempts all failed, the devices after it untouched.
C40_ErrorAfterRetries ==
    \A c \in 1..MaxCalls :
        (calls[c].pc = "ended" /\ calls[c].ids \in SeveralDevices) =>
            /\ calls[c].outcome \in {"ok", "HomeAssistantError"}
            /\ calls[c].outcome = "HomeAssistantError" => calls[c].attempt = max_retries
            /\ calls[c].outcome = "ok" => calls[c].i = Len(calls[c].ids)

\* C31: in an attempt of packet.py's write_image no image chunk is written
\* before a size packet and after it a begin-image command were written, and
\* no handshake packet is written twice, whatever the device answers.
C31_PacketPhaseOrder ==
    /\ \A i \in DOMAIN sent :
          sent[i].uuid = Uuids[2] =>
              \E j, k \in 1..(i - 1) :
                  /\ j < k
                  /\ sent[j].uuid = Uuids[1] /\ sent[j].hdr[1] = 2
                  /\ sent[k].uuid = Uuids[1] /\ sent[k].hdr = <<3>>
    /\ \A i, j \in DOMAIN sent :
          (i # j /\ sent[i].uuid = Uuids[1] /\ sent[j].uuid = Uuids[1]) =>
              sent[i] # sent[j]

\* C32: when a write_cmd of packet.py begins to write its packet the mailbox
\* is empty, so that what its read() returns was not received before that
\* write began.
C32_ClearedBeforeWrite ==
    [][(pc \in {"notify_sleep", "read"} /\ pc' = "write") =>
          (~event' /\ command_data' = None)]_vars

====
